---- MODULE Spec2Model ----
(***************************************************************************)
(* A model of the secure crawler of src/crawler.py: the URL normalizer,    *)
(* the host guard, the fetcher with its retry loop, the robots predicate   *)
(* and the crawl_site orchestrator with its pool of cooperative workers;   *)
(* and of the crawl coroutine of src/app.py with its asyncio.Queue.         *)
(*                                                                         *)
(* A URL string is a record of the parts urllib.parse sees in it:          *)
(*   scheme  the scheme as spelled in the text ("HTTP" and "http" differ), *)
(*           "" when the reference has none;                               *)
(*   host    the netloc, "" when the reference has none;                   *)
(*   path    the path split at "/": <<>> is the empty path, <<"">> is "/", *)
(*           <<"private","x">> is "/private/x";                            *)
(*   frag    the fragment, "" when the text holds no "#".                  *)
(* The empty string is the record whose parts are all empty.               *)
(***************************************************************************)
EXTENDS Integers, Sequences, FiniteSets, TLC

Url(s, h, p, f) == [scheme |-> s, host |-> h, path |-> p, frag |-> f]

\* Python's None where a URL string is expected.
None == Url("<None>", "", <<>>, "")
EmptyStr == Url("", "", <<>>, "")

\* ---------------------------------------------------------------- the site
Seed == Url("https", "example.com", <<"">>, "")
PageB == Url("https", "example.com", <<"b">>, "")
PageC == Url("https", "example.com", <<"c">>, "")
PageP == Url("https", "example.com", <<"private", "x">>, "")
PageS == Url("https", "blog.example.com", <<"">>, "")
PageD == Url("https", "other.org", <<"d">>, "")
PageL == Url("http", "127.0.0.1", <<"admin">>, "")
RobotsUrl == Url("https", "example.com", <<"robots.txt">>, "")
\* A page of the same site that links to six more, none of which links on.
Hub == Url("https", "example.com", <<"hub">>, "")
Leaves == { Url("https", "example.com", <<n>>, "") : n \in {"f1", "f2", "f3", "f4", "f5", "f6"} }

\* The anchors (a href=...) each page of the site carries.
Anchors(u) ==
    CASE u = Seed  -> { Url("", "", <<"b">>, ""), Url("", "", <<"c">>, ""),
                        Url("", "", <<>>, "top") }
      [] u = PageB -> { PageD, Seed, Url("", "", <<"private", "x">>, ""), PageL }
      [] u = PageC -> { PageS, Url("", "", <<"b">>, "sec"),
                        Url("mailto", "", <<"a@example.com">>, "") }
      [] u = PageS -> { PageC }
      [] u = Hub   -> Leaves
      [] OTHER     -> {}

\* The references normalize_url is exercised on as a pure function.
Hrefs ==
    { EmptyStr,
      Url("", "", <<"b">>, ""), Url("", "", <<>>, "top"),
      Url("", "blog.example.com", <<"">>, ""),
      Url("HTTP", "example.com", <<"c">>, ""),
      Url("HTTP", "example.com", <<"c">>, "sec"),
      Url("http", "example.com", <<"c">>, ""),
      Url("mailto", "", <<"a@example.com">>, ""),
      Url("ftp", "example.com", <<"c">>, ""),
      PageD, PageL, PageS, Seed }
Bases == { Seed, PageB, PageS, Url("http", "example.com", <<"c">>, "") }

\* ------------------------------------------------------------ name service
(* What socket.getaddrinfo answers for a host: it raises (ok = FALSE) or   *)
(* returns addresses, of which the model keeps the kinds.  The answer is   *)
(* the environment's: every step draws it anew among the answers the host  *)
(* can get (a name under the site owner's control can be rebound at any    *)
(* time, or stop resolving).                                               *)
Hosts == { "example.com", "blog.example.com", "other.org", "127.0.0.1", "" }
Addr(kinds) == [ok |-> TRUE, ips |-> kinds]
GaiError == [ok |-> FALSE, ips |-> {}]
Answers(h) ==
    CASE h = "example.com"      -> { Addr({"public"}) }
      [] h = "blog.example.com" -> { Addr({"public"}), Addr({"public", "private"}), GaiError }
      [] h = "other.org"        -> { Addr({"public"}) }
      [] h = "127.0.0.1"        -> { Addr({"loopback"}) }
      [] OTHER                  -> { GaiError }
AllAnswers == UNION { Answers(h) : h \in Hosts }
Resolutions == { r \in [Hosts -> AllAnswers] : \A h \in Hosts : r[h] \in Answers(h) }
UnsafeKinds == { "private", "loopback", "link_local", "reserved", "multicast" }

_is_private_ip(host, res) ==
    IF ~res[host].ok THEN FALSE
    ELSE \E ip \in res[host].ips : ip \in UnsafeKinds

\* tldextract: the pair (domain, suffix) printed as "domain.suffix".
TldDomain(h) ==
    CASE h = "example.com" -> "example" [] h = "blog.example.com" -> "example"
      [] h = "other.org" -> "other" [] OTHER -> h
TldSuffix(h) ==
    CASE h = "example.com" -> "com" [] h = "blog.example.com" -> "com"
      [] h = "other.org" -> "org" [] OTHER -> ""
_etld1(host) == IF host = "" THEN <<>> ELSE <<TldDomain(host), TldSuffix(host)>>

\* ------------------------------------------------------------ urllib.parse
\* urlparse lowercases the scheme it reports; the text keeps its spelling.
Lower(s) == CASE s = "HTTP" -> "http" [] s = "HTTPS" -> "https" [] OTHER -> s
UsesRelative == { "", "http", "https", "ftp" }

urlunparse(s, h, p, f) == Url(s, h, p, f)

urljoin(base, url) ==
    IF base = EmptyStr THEN url
    ELSE IF url = EmptyStr THEN base
    ELSE LET bscheme == Lower(base.scheme)
             scheme  == IF url.scheme = "" THEN bscheme ELSE Lower(url.scheme)
         IN  IF scheme # bscheme \/ scheme \notin UsesRelative THEN url
             ELSE IF url.host # "" THEN urlunparse(scheme, url.host, url.path, url.frag)
             ELSE IF url.path = <<>> THEN urlunparse(scheme, base.host, base.path, url.frag)
             ELSE urlunparse(scheme, base.host, url.path, url.frag)

urldefrag(url) ==
    IF url.frag # "" THEN urlunparse(Lower(url.scheme), url.host, url.path, "")
    ELSE url

hostname(url) == url.host

\* normalize_url without the comparison of the registrable domains.
normalize_url_noscope(base, href, res) ==
    IF href = EmptyStr THEN None
    ELSE LET url == urldefrag(urljoin(base, href))
         IN  IF Lower(url.scheme) \notin {"http", "https"} THEN None
             ELSE IF _is_private_ip(hostname(url), res) THEN None
             ELSE url
normalize_url(base, href, res) ==
    IF href = EmptyStr THEN None
    ELSE LET url == urldefrag(urljoin(base, href))
         IN  IF Lower(url.scheme) \notin {"http", "https"} THEN None
             ELSE IF _etld1(hostname(base)) # _etld1(hostname(url)) THEN None
             ELSE IF _is_private_ip(hostname(url), res) THEN None
             ELSE url

\* ------------------------------------------------------------- fetch_text
MAX_BYTES == 4 * 1024 * 1024
MaxAttempts == 3
MaxChunks == 2
ChunkSizes == { MAX_BYTES, MAX_BYTES + 1 }
Chunkings == UNION { [1..n -> ChunkSizes] : n \in 0..MaxChunks }
WordCounts == { 120, 400 }
\* What extract_rich can find in a body: a robots meta tag with noindex or
\* nofollow, or the number of words of the text, or past the text an anchor
\* whose href urljoin refuses (href="http://[x": ValueError, Invalid IPv6 URL).
Pages == { [noindex |-> TRUE, words |-> 0, bad |-> FALSE] } \cup
         { [noindex |-> FALSE, words |-> k, bad |-> FALSE] : k \in WordCounts } \cup
         { [noindex |-> FALSE, words |-> 0, bad |-> TRUE] }

\* A body as fetch_text holds it: None, or the bytes buffered and whether
\* they are the whole body the server sent.
NoBody == [none |-> TRUE, bytes |-> 0, whole |-> FALSE]
Body(n, w) == [none |-> FALSE, bytes |-> n, whole |-> w]
Truthy(html) == ~html.none /\ html.bytes > 0

\* Where a request for url may end after redirects: where it started, on
\* another host of the site, or on a loopback address.
Finals(url) ==
    { url, Url("https", "blog.example.com", url.path, ""), PageL }

(* What one session.get can bring: a transport exception, or a response    *)
(* with its final URL, status, content type, body chunks and, for a page,  *)
(* what the HTML holds (a robots meta tag, the number of words).  The body *)
(* is listed only where fetch_text reads it: on a 200 text/html response   *)
(* that did not end on the loopback address.                               *)
Exc == [exc |-> TRUE, final |-> None, status |-> 0, is_html |-> FALSE,
        chunks |-> <<>>, noindex |-> FALSE, words |-> 0, bad |-> FALSE]
Responses(url) ==
    { Exc } \cup
    { [exc |-> FALSE, final |-> f, status |-> st, is_html |-> h,
       chunks |-> <<>>, noindex |-> FALSE, words |-> 0, bad |-> FALSE] :
         f \in Finals(url), st \in {200, 404}, h \in BOOLEAN } \cup
    { [exc |-> FALSE, final |-> f, status |-> 200, is_html |-> TRUE,
       chunks |-> c, noindex |-> pg.noindex, words |-> pg.words, bad |-> pg.bad] :
         f \in Finals(url) \ {PageL}, c \in Chunkings \ {<<>>}, pg \in Pages }

\* The read loop: chunks are buffered until the running total passes the cap.
RECURSIVE ReadChunks(_, _, _)
ReadChunks(chunks, total, kept) ==
    IF chunks = <<>> THEN [kept |-> kept, broke |-> FALSE]
    ELSE IF total + Head(chunks) > MAX_BYTES THEN [kept |-> kept, broke |-> TRUE]
    ELSE ReadChunks(Tail(chunks), total + Head(chunks), Append(kept, Head(chunks)))
RECURSIVE Sum(_)
Sum(q) == IF q = <<>> THEN 0 ELSE Head(q) + Sum(Tail(q))
ReadBody(chunks) ==
    LET r == ReadChunks(chunks, 0, <<>>)
    IN  IF r.kept = <<>> THEN NoBody ELSE Body(Sum(r.kept), ~r.broke)

\* Of the headers fetch_text returns the model keeps the reason the worker
\* reads: "Reason", or "__exc".
Hdrs(final, reason) == [reason |-> reason]

\* How one attempt ended, for the record of the call.
Outcome(url, resp, res) ==
    IF resp.exc THEN "exception"
    ELSE IF _etld1(hostname(url)) # _etld1(hostname(resp.final))
            \/ _is_private_ip(hostname(resp.final), res) THEN "denied"
    ELSE IF resp.status # 200 THEN "bad_status"
    ELSE IF ~resp.is_html THEN "non_html"
    ELSE IF Truthy(ReadBody(resp.chunks)) THEN "html"
    ELSE IF ReadChunks(resp.chunks, 0, <<>>).broke THEN "oversize"
    ELSE "empty"

\* Attempt without the check of the final host.
Attempt_unguarded(url, resp, res) ==
    IF resp.exc
    THEN [done |-> TRUE, status |-> 0, html |-> NoBody, hdrs |-> Hdrs(None, "ClientError")]
    ELSE LET html == IF resp.status = 200 /\ resp.is_html
                     THEN ReadBody(resp.chunks) ELSE NoBody
         IN  [done |-> Truthy(html), status |-> resp.status, html |-> html,
              hdrs |-> Hdrs(resp.final, "")]
\* Attempt giving up at once when the answer brings no HTML body.
Attempt_rejecting(url, resp, res) ==
    IF resp.exc
    THEN [done |-> TRUE, status |-> 0, html |-> NoBody, hdrs |-> Hdrs(None, "ClientError")]
    ELSE IF _etld1(hostname(url)) # _etld1(hostname(resp.final))
            \/ _is_private_ip(hostname(resp.final), res)
    THEN [done |-> TRUE, status |-> 451, html |-> NoBody,
          hdrs |-> Hdrs(resp.final, "host_changed_outside_etld1_or_private")]
    ELSE LET html == IF resp.status = 200 /\ resp.is_html
                     THEN ReadBody(resp.chunks) ELSE NoBody
         IN  IF Truthy(html)
             THEN [done |-> TRUE, status |-> resp.status, html |-> html,
                   hdrs |-> Hdrs(resp.final, "")]
             ELSE [done |-> TRUE, status |-> 0, html |-> NoBody,
                   hdrs |-> Hdrs(resp.final, "ContentRejected")]
\* Attempt returning at once, with its status, an answer whose status is not 200.
Attempt_passing(url, resp, res) ==
    IF resp.exc
    THEN [done |-> TRUE, status |-> 0, html |-> NoBody, hdrs |-> Hdrs(None, "ClientError")]
    ELSE IF _etld1(hostname(url)) # _etld1(hostname(resp.final))
            \/ _is_private_ip(hostname(resp.final), res)
    THEN [done |-> TRUE, status |-> 451, html |-> NoBody,
          hdrs |-> Hdrs(resp.final, "host_changed_outside_etld1_or_private")]
    ELSE LET html == IF resp.status = 200 /\ resp.is_html
                     THEN ReadBody(resp.chunks) ELSE NoBody
         IN  [done |-> Truthy(html) \/ resp.status # 200, status |-> resp.status,
              html |-> html, hdrs |-> Hdrs(resp.final, "")]
\* One pass of the attempt loop: done with the value fetch_text returns, or
\* not done, and the loop sleeps and goes on.
Attempt(url, resp, res) ==
    IF resp.exc
    THEN [done |-> TRUE, status |-> 0, html |-> NoBody, hdrs |-> Hdrs(None, "ClientError")]
    ELSE IF _etld1(hostname(url)) # _etld1(hostname(resp.final))
            \/ _is_private_ip(hostname(resp.final), res)
    THEN [done |-> TRUE, status |-> 451, html |-> NoBody,
          hdrs |-> Hdrs(resp.final, "host_changed_outside_etld1_or_private")]
    ELSE LET html == IF resp.status = 200 /\ resp.is_html
                     THEN ReadBody(resp.chunks) ELSE NoBody
         IN  IF Truthy(html)
             THEN [done |-> TRUE, status |-> resp.status, html |-> html,
                   hdrs |-> Hdrs(resp.final, "")]
             ELSE [done |-> FALSE, status |-> resp.status, html |-> html,
                   hdrs |-> Hdrs(resp.final, "")]
MaxRetryExceeded ==
    [done |-> TRUE, status |-> 0, html |-> NoBody, hdrs |-> Hdrs(None, "MaxRetryExceeded")]

\* ------------------------------------------------------------- robots.txt
\* A robots.txt is the set of path prefixes it disallows for every agent.
PrivateRule == <<"private", "">>
\* The robots.txt of the seed's origin: "User-agent: *", "Disallow: /private/".
RobotsTxt == { PrivateRule }
StartsWith(path, pre) ==
    /\ Len(pre) <= Len(path)
    /\ \A i \in 1..(Len(pre) - 1) : path[i] = pre[i]
    /\ pre[Len(pre)] = "" \/ path[Len(pre)] = pre[Len(pre)]
\* ParsedRules disallowing every path when there is no text to parse.
ParsedRules_closed(html, file) ==
    IF ~Truthy(html) THEN { { <<"">> } }
    ELSE IF html.whole THEN { file }
    ELSE SUBSET file
\* RobotFileParser.parse on the text fetch_text gave: nothing of it when it
\* is None, the rules of the file when it is whole, and of a truncated text
\* the rules of its beginning.
ParsedRules(html, file) ==
    IF ~Truthy(html) THEN { {} }
    ELSE IF html.whole THEN { file }
    ELSE SUBSET file
allowed(rules, url) == ~\E pre \in rules : StartsWith(url.path, pre)

\* ------------------------------------------------------------- crawl_site
(* Time.  Every URL requested is of the seed's registrable domain, and the  *)
(* model keeps of the clock what the pacing of that domain depends on: gap  *)
(* is "rested" when a sleep of at least DEFAULT_DELAY has ended since the   *)
(* latest GET was sent, "fresh" when the latest GET was the first or was    *)
(* sent after such a sleep, and "hasty" when it was sent with no such sleep *)
(* since the GET before it (an answer may come in no time at all).          *)
\* In tenths of a second: DEFAULT_DELAY, and the sleep between two attempts.
DEFAULT_DELAY == 15
BACKOFF == 15
\* The gap after a sleep of d, and after a GET sent with slept tenths slept
\* since the step began.
AfterSleep(d, g) == IF d >= DEFAULT_DELAY THEN "rested" ELSE g
AfterGet(d, g) == IF AfterSleep(d, g) = "rested" THEN "fresh" ELSE "hasty"

NumWorkers == 4
Workers == 1..NumWorkers
MaxPages == 4
MinWords == 400
Concurrency == 2
MaxSamples == 5
\* app.crawl: the number of workers and the largest arguments explored.
AppConcurrency == 2
AppMaxPages == 3
AppMaxDepth == 2

VARIABLES
    max_pages, include_thin,   \* the arguments of crawl_site
    mpc, mattempt,             \* crawl_site itself: where it is, its fetch_text attempt
    robots,                    \* the parsed robots rules
    visited, queue, results, stats, sems,
    final,                     \* the pages map crawl_site returns
    pc, url, attempt, ret,     \* each worker: where it is and its locals
    page,                      \* each worker: what extract_rich saw in the body
    last,                      \* each worker: how its latest attempt ended
    dequeued, calls,           \* history: pops and fetch_text calls per URL
    tally,                     \* history: the counters incremented for each URL
    denied_by,                 \* history: the test that denied each denied URL
    gap                        \* time: what separates now from the latest GET
VARIABLES nbase, nhref, nout, nagain, nrebase, nphase,
          ndns                 \* what the name service answered during the call

cvars == <<max_pages, include_thin, mpc, mattempt, robots, visited, queue,
           results, stats, sems, final, pc, url, attempt, ret, page, last,
           dequeued, calls, tally, denied_by, gap>>
VARIABLES
    app_max_pages, app_max_depth,        \* the arguments of app.crawl
    app_respect_robots, app_registrable,
    app_rp,                              \* what parse_robots returned
    app_seen, app_queue, app_results,
    app_unfinished,                      \* the queue's count of unfinished tasks
    app_pc, app_item,                    \* each worker: where it is, its item
    app_main                             \* crawl itself: where it is

nvars == <<nbase, nhref, nout, nagain, nrebase, nphase, ndns>>
avars == <<app_max_pages, app_max_depth, app_respect_robots, app_registrable,
           app_rp, app_seen, app_queue, app_results, app_unfinished, app_pc,
           app_item, app_main>>
vars == <<cvars, nvars, avars>>

Count(f, u) == IF u \in DOMAIN f THEN f[u] ELSE 0
Inc(f, u) == (u :> Count(f, u) + 1) @@ f
Put(f, u, v) == (u :> v) @@ f

NoRet == [done |-> FALSE, status |-> 0, html |-> NoBody, hdrs |-> Hdrs(None, "")]
NoPage == [noindex |-> FALSE, words |-> 0, bad |-> FALSE]

\* The entries of the results dict, with the keys the final filter reads.
Denied(u) == [status |-> 451, url |-> u, skipped |-> FALSE, rich |-> FALSE,
              word_count |-> 0]
Failed(u, st) == [status |-> st, url |-> u, skipped |-> FALSE, rich |-> FALSE,
                  word_count |-> 0]
Skipped(u) == [status |-> 200, url |-> u, skipped |-> TRUE, rich |-> FALSE,
               word_count |-> 0]
Rich(u, words) == [status |-> 200, url |-> u, skipped |-> FALSE, rich |-> TRUE,
                   word_count |-> words]

CrawlIdle ==
    /\ max_pages = 0 /\ include_thin = FALSE
    /\ mpc = "idle" /\ mattempt = 0 /\ robots = {}
    /\ visited = {} /\ queue = <<>> /\ results = <<>> /\ sems = <<>>
    /\ stats = [crawled |-> 0, final_kept |-> 0, filtered_thin |-> 0,
                skipped_noindex |-> 0, robots_denied |-> 0, fetch_error |-> 0,
                status_200_html |-> 0, fail_samples |-> <<>>]
    /\ final = <<>>
    /\ pc = [w \in Workers |-> "unborn"]
    /\ url = [w \in Workers |-> None]
    /\ attempt = [w \in Workers |-> 0]
    /\ ret = [w \in Workers |-> NoRet]
    /\ page = [w \in Workers |-> NoPage]
    /\ last = [w \in Workers |-> "none"]
    /\ dequeued = <<>> /\ calls = <<>> /\ tally = <<>> /\ denied_by = <<>>
    /\ gap = "rested"
NormIdle ==
    /\ nbase = None /\ nhref = None /\ nout = None /\ nagain = None /\ nrebase = None
    /\ nphase = "idle"
    /\ ndns = [h \in Hosts |-> GaiError]
AppWorkers == 1..AppConcurrency
NoItem == [url |-> None, depth |-> 0]
AppIdle ==
    /\ app_max_pages = 0 /\ app_max_depth = 0
    /\ app_respect_robots = FALSE /\ app_registrable = FALSE
    /\ app_rp = "none"
    /\ app_seen = {} /\ app_queue = <<>> /\ app_results = <<>>
    /\ app_unfinished = 0
    /\ app_pc = [w \in AppWorkers |-> "unborn"]
    /\ app_item = [w \in AppWorkers |-> NoItem]
    /\ app_main = "idle"

\* crawl_site(root_url, max_pages, include_thin) as get_robots waits for the
\* answer to its request.
Start(root_url, budgets) ==
    /\ max_pages \in budgets
    /\ include_thin \in BOOLEAN
    /\ mpc = "robots_fetching" /\ mattempt = 0 /\ robots = {}
    /\ visited = {root_url} /\ queue = <<root_url>> /\ results = <<>> /\ sems = <<>>
    /\ stats = [crawled |-> 0, final_kept |-> 0, filtered_thin |-> 0,
                skipped_noindex |-> 0, robots_denied |-> 0, fetch_error |-> 0,
                status_200_html |-> 0, fail_samples |-> <<>>]
    /\ final = <<>>
    /\ pc = [w \in Workers |-> "unborn"]
    /\ url = [w \in Workers |-> None]
    /\ attempt = [w \in Workers |-> 0]
    /\ ret = [w \in Workers |-> NoRet]
    /\ page = [w \in Workers |-> NoPage]
    /\ last = [w \in Workers |-> "none"]
    /\ dequeued = <<>>
    /\ calls = (RobotsUrl :> 1)
    /\ tally = <<>>
    /\ denied_by = <<>>
    /\ gap = "fresh"
    /\ NormIdle
    /\ AppIdle
Init == Start(Seed, {0, 1, MaxPages})

\* The answer is the file itself: status 200 from the seed's origin, the
\* body complete where it is read (whatever the content type says).
ServedInFull(resp) ==
    /\ ~resp.exc /\ resp.final = RobotsUrl /\ resp.status = 200
    /\ resp.is_html => Truthy(ReadBody(resp.chunks)) /\ ReadBody(resp.chunks).whole

\* get_robots: the request for robots.txt is answered, by one of answers.
RobotsAnswer(answers) ==
    /\ mpc = "robots_fetching"
    /\ \E resp \in answers, res \in Resolutions :
          LET a == Attempt(RobotsUrl, resp, res)
          IN  IF a.done
                 THEN /\ \E rules \in ParsedRules(a.html, RobotsTxt) : robots' = rules
                      /\ mpc' = "gather"
                      /\ mattempt' = 0
                      /\ pc' = [w \in Workers |-> "ready"]
                 ELSE /\ mpc' = "robots_backoff"
                      /\ UNCHANGED <<robots, pc, mattempt>>
    /\ UNCHANGED <<max_pages, include_thin, visited, queue, results,
                   stats, sems, final, url, attempt, ret, page, last, dequeued, calls,
                   tally, denied_by, gap, nvars, avars>>

RobotsResponse == RobotsAnswer(Responses(RobotsUrl))
\* The origin serves its robots.txt in full each time it is asked.
RobotsServed == RobotsAnswer({ resp \in Responses(RobotsUrl) : ServedInFull(resp) })

\* get_robots: the sleep between two attempts is over.
RobotsBackoff ==
    /\ mpc = "robots_backoff"
    /\ IF mattempt + 1 < MaxAttempts
       THEN /\ mpc' = "robots_fetching"
            /\ mattempt' = mattempt + 1
            /\ gap' = AfterGet(BACKOFF, gap)
            /\ UNCHANGED <<robots, pc>>
       ELSE /\ \E rules \in ParsedRules(MaxRetryExceeded.html, RobotsTxt) : robots' = rules
            /\ mpc' = "gather"
            /\ mattempt' = 0
            /\ gap' = AfterSleep(BACKOFF, gap)
            /\ pc' = [w \in Workers |-> "ready"]
    /\ UNCHANGED <<max_pages, include_thin, visited, queue, results,
                   stats, sems, final, url, attempt, ret, page, last, dequeued, calls,
                   tally, denied_by, nvars, avars>>

(* The locals of fetch_text and of the loop body (the attempt number, the  *)
(* value returned, the page parsed) are dead once the next pass of the     *)
(* loop starts: the model resets them there.                               *)
(* asyncio runs the steps that are ready in the order they were scheduled: *)
(* the workers take their first step in the order create_task made them,   *)
(* and no answer or timer is handled before all of them have.              *)
\* Started with answers handled before every worker has taken its first step.
Started_early == TRUE
Started == \A w \in Workers : pc[w] # "ready"
MayRun(w) == pc[w] = "ready" => \A v \in Workers : v < w => pc[v] # "ready"

\* The worker's loop from its while test to its next suspension: URLs the
\* robots rules or the host guard deny are recorded and the loop goes on
\* (continue skips the sleep), until the frontier is empty, the budget is
\* reached or a URL is to be fetched.
Noted(t, u, counter) == Put(t, u, Append(IF u \in DOMAIN t THEN t[u] ELSE <<>>, counter))
\* DenyStats counting the denied URL as crawled too.
DenyStats_crawled(st) == [st EXCEPT !.robots_denied = @ + 1, !.crawled = @ + 1]
DenyStats(st) == [st EXCEPT !.robots_denied = @ + 1]
\* The comparison with the page budget, of len(results) in the while test
\* and of len(results) + len(queue) where a link is admitted.
WithinBudget_none(n) == TRUE
WithinBudget(n) == n < max_pages
\* The while test without the budget.
LoopTest_nobudget(Q, R) == Q # <<>>
\* while queue and len(results) < max_pages
LoopTest(Q, R) == Q # <<>> /\ WithinBudget(Cardinality(DOMAIN R))
RECURSIVE RunLoop(_, _)
RunLoop(S, res) ==
    IF ~LoopTest(S.queue, S.results)
    THEN [S EXCEPT !.next = "exit"]
    ELSE LET u == Head(S.queue)
             S1 == [S EXCEPT !.queue = Tail(@), !.dequeued = Inc(@, u)]
             deny(test) == [S1 EXCEPT !.results = Put(@, u, Denied(u)),
                                      !.stats = DenyStats(@),
                                      !.tally = Noted(@, u, "robots_denied"),
                                      !.denied_by = Put(@, u, test)]
         IN  IF ~allowed(robots, u) THEN RunLoop(deny("robots"), res)
             ELSE IF _is_private_ip(hostname(u), res) THEN RunLoop(deny("unsafe"), res)
             ELSE [S1 EXCEPT !.next = "fetch", !.url = u]

\* DomainLimiter.sem: the semaphore of the URL's registrable domain.
SemKey(u) == _etld1(hostname(u))
SemsWith(u) == IF SemKey(u) \in DOMAIN sems THEN sems ELSE Put(sems, SemKey(u), Concurrency)

\* async with sem, then the first GET of fetch_text; a worker that finds the
\* semaphore locked waits for it.
Dispatch(w, u) ==
    IF SemsWith(u)[SemKey(u)] > 0
    THEN /\ sems' = [SemsWith(u) EXCEPT ![SemKey(u)] = @ - 1]
         /\ pc' = [pc EXCEPT ![w] = "fetching"]
         /\ calls' = Inc(calls, u)
    ELSE /\ sems' = SemsWith(u)
         /\ pc' = [pc EXCEPT ![w] = "acquiring"]
         /\ UNCHANGED calls

WorkerRun(w) ==
    /\ pc[w] \in {"ready", "sleeping", "acquiring"}
    /\ MayRun(w)
    /\ IF pc[w] = "acquiring"
       THEN /\ sems[SemKey(url[w])] > 0
            /\ Dispatch(w, url[w])
            /\ UNCHANGED <<queue, results, stats, dequeued, tally, denied_by, url>>
       ELSE \E res \in Resolutions :
              LET r == RunLoop([queue |-> queue, results |-> results, stats |-> stats,
                                dequeued |-> dequeued, tally |-> tally,
                                denied_by |-> denied_by,
                                next |-> "", url |-> None], res)
              IN  /\ queue' = r.queue
                  /\ results' = r.results
                  /\ stats' = r.stats
                  /\ dequeued' = r.dequeued
                  /\ tally' = r.tally
                  /\ denied_by' = r.denied_by
                  /\ IF r.next = "exit"
                     THEN /\ pc' = [pc EXCEPT ![w] = "done"]
                          /\ url' = [url EXCEPT ![w] = None]
                          /\ UNCHANGED <<sems, calls>>
                     ELSE /\ url' = [url EXCEPT ![w] = r.url]
                          /\ Dispatch(w, r.url)
    /\ LET slept == IF pc[w] = "sleeping" THEN DEFAULT_DELAY ELSE 0
       IN  gap' = IF pc'[w] = "fetching" THEN AfterGet(slept, gap)
                  ELSE AfterSleep(slept, gap)
    /\ attempt' = [attempt EXCEPT ![w] = 0]
    /\ last' = [last EXCEPT ![w] = "none"]
    /\ ret' = [ret EXCEPT ![w] = NoRet]
    /\ page' = [page EXCEPT ![w] = NoPage]
    /\ UNCHANGED <<max_pages, include_thin, mpc, mattempt, robots, visited,
                   final, nvars, avars>>

\* The orders in which a set of links can be iterated (list(set)).
Orders(S) == { f \in [1..Cardinality(S) -> S] : \A i, j \in DOMAIN f : f[i] = f[j] => i = j }

\* Expand without the test of the visited set.
RECURSIVE Expand_nodedup(_, _, _, _)
Expand_nodedup(order, V, Q, nres) ==
    IF order = <<>> THEN [visited |-> V, queue |-> Q]
    ELSE LET link == Head(order)
         IN  IF nres + Len(Q) < max_pages
             THEN Expand_nodedup(Tail(order), V \cup {link}, Append(Q, link), nres)
             ELSE Expand_nodedup(Tail(order), V, Q, nres)
\* Expand without the test of the budget.
RECURSIVE Expand_nobudget(_, _, _, _)
Expand_nobudget(order, V, Q, nres) ==
    IF order = <<>> THEN [visited |-> V, queue |-> Q]
    ELSE LET link == Head(order)
         IN  IF link \notin V
             THEN Expand_nobudget(Tail(order), V \cup {link}, Append(Q, link), nres)
             ELSE Expand_nobudget(Tail(order), V, Q, nres)
\* The admission of the links of a page, in the order given.
RECURSIVE Expand(_, _, _, _)
Expand(order, V, Q, nres) ==
    IF order = <<>> THEN [visited |-> V, queue |-> Q]
    ELSE LET link == Head(order)
         IN  IF link \notin V /\ WithinBudget(nres + Len(Q))
             THEN Expand(Tail(order), V \cup {link}, Append(Q, link), nres)
             ELSE Expand(Tail(order), V, Q, nres)

\* extract_rich: the links of the anchors that normalize_url keeps.
Links(u, anchors, res) == { normalize_url(u, h, res) : h \in anchors } \ {None}
\* The anchors the parser finds: those of the page, or of a truncated body
\* those of its beginning.
SeenAnchors(u, html) == IF html.whole THEN { Anchors(u) } ELSE { Anchors(u), {} }

Sample(u, r) == [url |-> u, status |-> r.status, reason |-> r.hdrs.reason]
\* AddSample appending whatever the list holds.
AddSample_unbounded(samples, smp) == Append(samples, smp)
\* The failure is appended to fail_samples while the list holds fewer than 5.
AddSample(samples, smp) ==
    IF Len(samples) < MaxSamples THEN Append(samples, smp) ELSE samples

\* async with sem, on its way out: the permit goes back, however the block ended.
Release_leaky(u) == sems
Release(u) == [sems EXCEPT ![SemKey(u)] = @ + 1]

\* extract_rich raises on the body: no robots meta tag stops it before the
\* anchors, and one of them has an href urljoin refuses.
Raises(r, pg) == r.status = 200 /\ Truthy(r.html) /\ ~pg.noindex /\ pg.bad

\* The worker from the return of fetch_text to its sleep: the counters, the
\* entry of results, the links of a kept page, the release of the semaphore.
\* An exception of extract_rich leaves the block, the loop and the worker.
Process(w, r, pg, order) ==
    LET u == url[w]
        st1 == [stats EXCEPT !.crawled = @ + 1]
    IN  /\ IF r.status # 200 \/ ~Truthy(r.html)
           THEN /\ results' = Put(results, u, Failed(u, r.status))
                /\ tally' = Noted(tally, u, "fetch_error")
                /\ stats' = [st1 EXCEPT !.fetch_error = @ + 1,
                                        !.fail_samples = AddSample(@, Sample(u, r))]
                /\ UNCHANGED <<visited, queue>>
           ELSE IF pg.noindex
           THEN /\ results' = Put(results, u, Skipped(u))
                /\ tally' = Noted(tally, u, "status_200_html")
                /\ stats' = [st1 EXCEPT !.status_200_html = @ + 1,
                                        !.skipped_noindex = @ + 1]
                /\ UNCHANGED <<visited, queue>>
           ELSE IF pg.bad
           THEN /\ tally' = Noted(tally, u, "status_200_html")
                /\ stats' = [st1 EXCEPT !.status_200_html = @ + 1]
                /\ UNCHANGED <<results, visited, queue>>
           ELSE LET res1 == Put(results, u, Rich(u, pg.words))
                    e == Expand(order, visited, queue, Cardinality(DOMAIN res1))
                IN  /\ results' = res1
                    /\ tally' = Noted(tally, u, "status_200_html")
                    /\ stats' = [st1 EXCEPT !.status_200_html = @ + 1]
                    /\ visited' = e.visited
                    /\ queue' = e.queue
        /\ sems' = Release(u)
        /\ pc' = [pc EXCEPT ![w] = IF Raises(r, pg) THEN "raised" ELSE "sleeping"]
        /\ ret' = [ret EXCEPT ![w] = r]
        /\ page' = [page EXCEPT ![w] = pg]

\* The answer to a worker's GET (or its failure) arrives, one of answers.
FetchAnswer(w, answers) ==
    /\ pc[w] = "fetching"
    /\ Started
    /\ \E resp \in answers, res \in Resolutions :
          LET a == Attempt(url[w], resp, res)
          IN  /\ last' = [last EXCEPT ![w] = Outcome(url[w], resp, res)]
              /\ IF a.done
                 THEN \E anchors \in SeenAnchors(url[w], a.html) :
                        \E order \in Orders(Links(url[w], anchors, res)) :
                           Process(w, a, [noindex |-> resp.noindex, words |-> resp.words,
                                          bad |-> resp.bad], order)
                 ELSE /\ pc' = [pc EXCEPT ![w] = "backoff"]
                      /\ UNCHANGED <<results, stats, visited, queue, sems, ret, page, tally>>
    /\ UNCHANGED <<max_pages, include_thin, mpc, mattempt, robots, final, url,
                   attempt, dequeued, calls, denied_by, gap, nvars, avars>>
FetchResponse(w) == FetchAnswer(w, Responses(url[w]))

\* fetch_text's sleep between two attempts is over: the next GET, or after
\* the last attempt the return of MaxRetryExceeded.
FetchBackoff(w) ==
    /\ pc[w] = "backoff"
    /\ Started
    /\ IF attempt[w] + 1 < MaxAttempts
       THEN /\ pc' = [pc EXCEPT ![w] = "fetching"]
            /\ attempt' = [attempt EXCEPT ![w] = @ + 1]
            /\ last' = [last EXCEPT ![w] = "none"]
            /\ gap' = AfterGet(BACKOFF, gap)
            /\ UNCHANGED <<results, stats, visited, queue, sems, ret, page, tally>>
       ELSE /\ Process(w, MaxRetryExceeded, NoPage, <<>>)
            /\ gap' = AfterSleep(BACKOFF, gap)
            /\ UNCHANGED <<attempt, last>>
    /\ UNCHANGED <<max_pages, include_thin, mpc, mattempt, robots, final, url,
                   dequeued, calls, denied_by, nvars, avars>>

\* The final filter: the kept pages that are not thin, or all with include_thin.
\* IsPage without the test of the skipped key.
IsPage_noskip(v) == v.status = 200
IsPage(v) == v.status = 200 /\ ~v.skipped
\* Keeps with the threshold itself left out.
Keeps_strict(v) == include_thin \/ v.word_count > MinWords
Keeps(v) == include_thin \/ v.word_count >= MinWords
FinalPages == { u \in DOMAIN results : IsPage(results[u]) /\ Keeps(results[u]) }
\* ThinPages taking every entry the filter does not keep for a thin page.
ThinPages_any == { u \in DOMAIN results : ~(IsPage(results[u]) /\ Keeps(results[u])) }
ThinPages == { u \in DOMAIN results : IsPage(results[u]) /\ ~Keeps(results[u]) }

\* gather has every worker's result: crawl_site filters and returns.
Return ==
    /\ mpc = "gather"
    /\ \A w \in Workers : pc[w] = "done"
    /\ final' = [u \in FinalPages |-> results[u]]
    /\ stats' = [stats EXCEPT !.final_kept = @ + Cardinality(FinalPages),
                              !.filtered_thin = @ + Cardinality(ThinPages)]
    /\ mpc' = "returned"
    /\ UNCHANGED <<max_pages, include_thin, mattempt, robots, visited, queue,
                   results, sems, pc, url, attempt, ret, page, last, dequeued, calls,
                   tally, denied_by, gap, nvars, avars>>

\* gather has a worker's exception: it raises it in crawl_site, which leaves
\* the session block and raises it to its caller; nothing is returned.
Abort ==
    /\ mpc = "gather"
    /\ \E w \in Workers : pc[w] = "raised"
    /\ mpc' = "raised"
    /\ UNCHANGED <<max_pages, include_thin, mattempt, robots, visited, queue,
                   results, stats, sems, final, pc, url, attempt, ret, page, last,
                   dequeued, calls, tally, denied_by, gap, nvars, avars>>

Next ==
    \/ RobotsResponse
    \/ RobotsBackoff
    \/ \E w \in Workers : WorkerRun(w)
    \/ \E w \in Workers : FetchResponse(w)
    \/ \E w \in Workers : FetchBackoff(w)
    \/ Return
    \/ Abort
Spec == Init /\ [][Next]_vars

(* Every request ends, with an answer or with an exception (the client's   *)
(* total timeout), every sleep ends, and the event loop runs every step     *)
(* that is ready.                                                           *)
SpecLive == Init /\ [][Next]_vars /\ WF_vars(Next)

\* The crawl of a site whose robots.txt is served in full.
NextServed ==
    \/ RobotsServed
    \/ RobotsBackoff
    \/ \E w \in Workers : WorkerRun(w)
    \/ \E w \in Workers : FetchResponse(w)
    \/ \E w \in Workers : FetchBackoff(w)
    \/ Return
    \/ Abort
SpecServed == Init /\ [][NextServed]_vars

(* The task running crawl_site is cancelled from outside.  CancelledError   *)
(* is raised where crawl_site waits: in get_robots, where fetch_text's      *)
(* except Exception does not catch it, or in gather, which cancels every    *)
(* worker that has not ended; each of them gets CancelledError where it     *)
(* waits, leaves its async with block (the permit goes back) and ends.      *)
(* crawl_site raises CancelledError to its caller: it returns nothing.      *)
Cancel ==
    /\ mpc \in {"robots_fetching", "robots_backoff", "gather"}
    /\ mpc' = "cancelled"
    /\ mattempt' = 0
    /\ pc' = [w \in Workers |->
                IF pc[w] \in {"unborn", "done", "raised"} THEN pc[w] ELSE "cancelled"]
    /\ sems' = [k \in DOMAIN sems |->
                  sems[k] + Cardinality({ w \in Workers :
                                            /\ pc[w] \in {"fetching", "backoff"}
                                            /\ SemKey(url[w]) = k })]
    /\ url' = [w \in Workers |-> None]
    /\ attempt' = [w \in Workers |-> 0]
    /\ ret' = [w \in Workers |-> NoRet]
    /\ page' = [w \in Workers |-> NoPage]
    /\ last' = [w \in Workers |-> "none"]
    /\ UNCHANGED <<max_pages, include_thin, robots, visited, queue, results, stats,
                   final, dequeued, calls, tally, denied_by, gap, nvars, avars>>
NextCancel == Next \/ Cancel
SpecCancel == Init /\ [][NextCancel]_vars

(* The crawl from the hub, with a budget that admits all its links, of a    *)
(* site that goes down once the hub's page is served: the request for       *)
(* robots.txt and every request for a leaf fail in transport.               *)
HubPages == Cardinality(Leaves) + 1
ServedAndKept(u, resp) ==
    /\ ~resp.exc /\ resp.final = u /\ resp.status = 200 /\ resp.is_html
    /\ Truthy(ReadBody(resp.chunks)) /\ ReadBody(resp.chunks).whole
    /\ ~resp.noindex /\ ~resp.bad
HubAnswers(u) ==
    IF u = Hub THEN { resp \in Responses(u) : ServedAndKept(u, resp) } ELSE { Exc }
RobotsRefused == RobotsAnswer({ Exc })
HubFetch(w) == FetchAnswer(w, HubAnswers(url[w]))
InitHub == Start(Hub, { HubPages })
NextHub ==
    \/ RobotsRefused
    \/ \E w \in Workers : WorkerRun(w)
    \/ \E w \in Workers : HubFetch(w)
    \/ Return
SpecHub == InitHub /\ [][NextHub]_vars

\* The crawl of a site whose robots.txt cannot be had: the request fails,
\* is answered with another status than 200, or with an empty body.
Unavailable(resp) ==
    resp.exc \/ resp.status # 200 \/ (resp.is_html /\ resp.chunks = <<>>)
RobotsUnavailable == RobotsAnswer({ resp \in Responses(RobotsUrl) : Unavailable(resp) })
NextDown ==
    \/ RobotsUnavailable
    \/ RobotsBackoff
    \/ \E w \in Workers : WorkerRun(w)
    \/ \E w \in Workers : FetchResponse(w)
    \/ \E w \in Workers : FetchBackoff(w)
    \/ Return
    \/ Abort
SpecDown == Init /\ [][NextDown]_vars

NormInit ==
    /\ nbase \in Bases
    /\ nhref \in Hrefs
    /\ nout = None
    /\ nagain = None
    /\ nrebase = None
    /\ nphase = "call"
    /\ ndns = [h \in Hosts |-> GaiError]
    /\ CrawlIdle
    /\ AppIdle
Normalize ==
    /\ nphase = "call"
    /\ \E res \in Resolutions :
          /\ nout' = normalize_url(nbase, nhref, res)
          /\ ndns' = res
    /\ nphase' = "normalized"
    /\ UNCHANGED <<nbase, nhref, nagain, nrebase, cvars, avars>>
\* The URL returned is normalized again, against itself and against the
\* base, while the name service still gives its host no unsafe address.
Renormalize ==
    /\ nphase = "normalized"
    /\ nout # None
    /\ \E res \in Resolutions :
          /\ ~_is_private_ip(hostname(nout), res)
          /\ nagain' = normalize_url(nout, nout, res)
          /\ nrebase' = normalize_url(nbase, nout, res)
    /\ nphase' = "renormalized"
    /\ UNCHANGED <<nbase, nhref, nout, ndns, cvars, avars>>
NormNext == Normalize \/ Renormalize
SpecNorm == NormInit /\ [][NormNext]_vars
\* ---------------------------------------------------------------- app.crawl
(* app.crawl(seed, max_pages, max_depth, concurrency, ...) of src/app.py.   *)
(* An asyncio.Queue counts its unfinished tasks: put adds one, task_done    *)
(* takes one away, and join returns once the count is zero.  The queue is   *)
(* unbounded and the worker tests it before it gets from it, so neither put *)
(* nor get suspends: a worker runs from one answer of session.get to its    *)
(* next request, or out of its loop, without any other task running.        *)
(* include_re and exclude_re match none of the URLs of the site below.      *)
AppSeed == Seed
AppBudgets == 0..AppMaxPages
AppDepths == 1..AppMaxDepth
\* What parse_robots can return: the parser after read() found no file (4xx),
\* was refused (401, 403), raised (the parser was never fed), or parsed the
\* file of RobotsTxt.
AppRobots == { "allow_all", "disallow_all", "unread", "rules" }
can_fetch(rp, u) ==
    CASE rp = "allow_all" -> TRUE
      [] rp \in { "disallow_all", "unread" } -> FALSE
      [] OTHER -> allowed(RobotsTxt, u)
\* The a href=... of each page, in the order find_all returns them.
AppAnchors(u) ==
    CASE u = Seed  -> << Url("", "", <<"b">>, ""), Url("", "", <<>>, "top"),
                         Url("", "", <<"c">>, ""), PageD,
                         Url("", "", <<"b">>, "sec") >>
      [] u = PageB -> << Seed, Url("", "", <<"private", "x">>, ""), PageS >>
      [] u = PageC -> << Url("mailto", "", <<"a@example.com">>, ""), PageB >>
      [] u = PageS -> << PageC >>
      [] OTHER     -> << >>
\* What a fetched body holds for the worker: no text at all (an error, a
\* body that is not HTML, an empty body), or the anchors of the page,
\* among them or not one whose href urljoin refuses (ValueError).
AppBodies(u) ==
    { [html |-> FALSE, anchors |-> << >>, bad |-> FALSE] }
    \cup { [html |-> TRUE, anchors |-> AppAnchors(u), bad |-> b] : b \in BOOLEAN }

norm_url(u, base) == IF u = EmptyStr THEN EmptyStr ELSE urldefrag(urljoin(base, u))
same_scope(u, seed, registrable) ==
    IF registrable
    THEN <<TldDomain(u.host), TldSuffix(u.host)>> = <<TldDomain(seed.host), TldSuffix(seed.host)>>
    ELSE u.host = seed.host
\* The children list the worker builds from the anchors of a page.
RECURSIVE Children(_, _)
Children(anchors, final_url) ==
    IF anchors = << >> THEN << >>
    ELSE LET href == norm_url(Head(anchors), final_url)
             rest == Children(Tail(anchors), final_url)
         IN  IF href.scheme \notin { "http", "https" } THEN rest
             ELSE IF ~same_scope(href, AppSeed, app_registrable) THEN rest
             ELSE <<href>> \o rest

Denies(u) == app_respect_robots /\ app_rp # "none" /\ ~can_fetch(app_rp, u)
AppWithinBudget(n) == n < app_max_pages

\* The loop "for nxt in children" that enqueues the children of a page: st
\* is the state of seen, the queue and its count so far, n is len(results).
RECURSIVE Enqueue(_, _, _, _)
Enqueue(children, depth, n, st) ==
    IF children = << >> THEN st
    ELSE LET nxt == Head(children)
         IN  IF nxt \in st.seen THEN Enqueue(Tail(children), depth, n, st)
             ELSE IF ~AppWithinBudget(n + Len(st.queue)) THEN st
             ELSE IF Denies(nxt) THEN Enqueue(Tail(children), depth, n, st)
             ELSE Enqueue(Tail(children), depth, n,
                          [seen |-> st.seen \cup { nxt },
                           queue |-> Append(st.queue, [url |-> nxt, depth |-> depth + 1]),
                           unfinished |-> st.unfinished + 1])

\* The worker from the test of its while loop to its next session.get or
\* out of the loop: the items robots.txt denies are taken, marked done and
\* passed over on the way.  n is len(results).
RECURSIVE WorkerLoop(_, _)
WorkerLoop(n, st) ==
    IF st.queue = << >> \/ ~AppWithinBudget(n)
    THEN [seen |-> st.seen, queue |-> st.queue, unfinished |-> st.unfinished,
          pc |-> "exited", item |-> NoItem]
    ELSE LET it == Head(st.queue)
         IN  IF Denies(it.url)
             THEN WorkerLoop(n, [seen |-> st.seen, queue |-> Tail(st.queue),
                                 unfinished |-> st.unfinished - 1])
             ELSE [seen |-> st.seen, queue |-> Tail(st.queue),
                   unfinished |-> st.unfinished, pc |-> "fetching", item |-> it]

AppNow == [seen |-> app_seen, queue |-> app_queue, unfinished |-> app_unfinished]
AppResume(w, n, st) ==
    LET out == WorkerLoop(n, st)
    IN  /\ app_seen' = out.seen
        /\ app_queue' = out.queue
        /\ app_unfinished' = out.unfinished
        /\ app_pc' = [app_pc EXCEPT ![w] = out.pc]
        /\ app_item' = [app_item EXCEPT ![w] = out.item]

\* crawl as it waits in queue.join(): the seed is queued and seen, robots.txt
\* was read, the workers are created and none has run yet.
AppInit ==
    /\ app_max_pages \in AppBudgets
    /\ app_max_depth \in AppDepths
    /\ app_respect_robots \in BOOLEAN
    /\ app_registrable \in BOOLEAN
    /\ app_rp \in IF app_respect_robots THEN AppRobots ELSE { "none" }
    /\ app_seen = { AppSeed }
    /\ app_queue = << [url |-> AppSeed, depth |-> 0] >>
    /\ app_results = << >>
    /\ app_unfinished = 1
    /\ app_pc = [w \in AppWorkers |-> "unborn"]
    /\ app_item = [w \in AppWorkers |-> NoItem]
    /\ app_main = "joining"
    /\ CrawlIdle
    /\ NormIdle

\* The tasks run first in the order of their creation.
AppMayRun(w) == \A v \in AppWorkers : v < w => app_pc[v] # "unborn"
\* A worker task runs for the first time.
AppWorkerStart(w) ==
    /\ app_main = "joining"
    /\ app_pc[w] = "unborn"
    /\ AppMayRun(w)
    /\ AppResume(w, Len(app_results), AppNow)
    /\ UNCHANGED <<app_max_pages, app_max_depth, app_respect_robots,
                   app_registrable, app_rp, app_results, app_main, cvars, nvars>>

\* fetch returns to the worker, which handles the page up to its next
\* request: the branch of the pages without text, or the parsing, the
\* record, the children and task_done; an exception raised while parsing
\* ends the worker's task where it is.
AppFetched(w) ==
    /\ app_main = "joining"
    /\ app_pc[w] = "fetching"
    /\ \A v \in AppWorkers : app_pc[v] # "unborn"
    /\ \E body \in AppBodies(app_item[w].url) :
          LET it == app_item[w]
              rec == [url |-> it.url, depth |-> it.depth, html |-> body.html]
              res == Append(app_results, rec)
              done == [seen |-> app_seen, queue |-> app_queue,
                       unfinished |-> app_unfinished - 1]
          IN  IF ~body.html
              THEN /\ app_results' = res
                   /\ AppResume(w, Len(res), done)
              ELSE IF body.bad
              THEN /\ app_pc' = [app_pc EXCEPT ![w] = "raised"]
                   /\ UNCHANGED <<app_results, app_seen, app_queue,
                                  app_unfinished, app_item>>
              ELSE LET children == Children(body.anchors, it.url)
                       put == IF it.depth < app_max_depth
                              THEN Enqueue(children, it.depth, Len(res), AppNow)
                              ELSE AppNow
                   IN  /\ app_results' = res
                       /\ AppResume(w, Len(res),
                                    [seen |-> put.seen, queue |-> put.queue,
                                     unfinished |-> put.unfinished - 1])
    /\ UNCHANGED <<app_max_pages, app_max_depth, app_respect_robots,
                   app_registrable, app_rp, app_main, cvars, nvars>>

\* queue.join() returns: crawl cancels the workers and returns results.
AppJoined ==
    /\ app_main = "joining"
    /\ app_unfinished = 0
    /\ app_main' = "returned"
    /\ app_pc' = [w \in AppWorkers |->
                    IF app_pc[w] \in { "exited", "raised" } THEN app_pc[w]
                    ELSE "cancelled"]
    /\ UNCHANGED <<app_max_pages, app_max_depth, app_respect_robots,
                   app_registrable, app_rp, app_seen, app_queue, app_results,
                   app_unfinished, app_item, cvars, nvars>>

AppNext ==
    \/ \E w \in AppWorkers : AppWorkerStart(w)
    \/ \E w \in AppWorkers : AppFetched(w)
    \/ AppJoined
SpecApp == AppInit /\ [][AppNext]_vars
\* ------------------------------------------------------------------ claims
Range(q) == { q[i] : i \in 1..Len(q) }
Running == mpc # "idle"
Returned == mpc = "returned"
SeedDomain == _etld1(hostname(Seed))

\* C1: every URL is dequeued at most once and given to fetch_text at most
\* once; the frontier never holds a URL twice nor one already dequeued, and
\* the visited set is exactly the set of the URLs ever enqueued.
C1_VisitedAtMostOnce ==
    Running =>
        /\ \A u \in DOMAIN dequeued : dequeued[u] <= 1
        /\ \A u \in DOMAIN calls : calls[u] <= 1
        /\ \A i, j \in 1..Len(queue) : queue[i] = queue[j] => i = j
        /\ Range(queue) \cap DOMAIN dequeued = {}
        /\ visited = Range(queue) \cup DOMAIN dequeued
\* The run is over, PageB (which links back to the seed) and PageC (which
\* links to PageB again) were both kept, and each was dequeued once.
C1_Witness ==
    /\ Returned
    /\ {PageB, PageC} \subseteq DOMAIN results
    /\ results[PageB].rich /\ results[PageC].rich
    /\ dequeued[Seed] = 1 /\ dequeued[PageB] = 1

\* C2: for every anchor of every URL of the crawl and every answer of the
\* name service, normalize_url returns None or a URL of the seed's
\* registrable domain whose host was given no unsafe address; every URL
\* enqueued, fetched or returned is of the seed's registrable domain.
C2_InScope ==
    Running =>
        /\ \A res \in Resolutions : \A base \in visited : \A h \in Anchors(base) :
              LET u == normalize_url(base, h, res)
              IN  u # None => /\ _etld1(hostname(u)) = SeedDomain
                              /\ ~_is_private_ip(hostname(u), res)
        /\ \A u \in visited \cup Range(queue) \cup DOMAIN results \cup DOMAIN final
                    \cup (DOMAIN calls \ {RobotsUrl}) :
              _etld1(hostname(u)) = SeedDomain
\* PageB, which links to the off-scope PageD and to the loopback PageL, is in
\* the pages returned, and neither PageD nor PageL is.
C2_Witness ==
    /\ Returned
    /\ PageB \in DOMAIN final
    /\ PageD \notin DOMAIN final /\ PageL \notin DOMAIN final
    /\ PageD \notin visited

\* C3: with robots.txt served in full and disallowing /private/, a URL under
\* /private/ is never given to fetch_text, and once dequeued it is recorded
\* as denied and counted once, in robots_denied.
C3_DisallowedNeverFetched ==
    \A u \in visited :
        StartsWith(u.path, PrivateRule) =>
            /\ Count(calls, u) = 0
            /\ u \in DOMAIN results =>
                  results[u].status = 451 /\ tally[u] = <<"robots_denied">>

\* C4: an attempt whose final host is off the requested URL's registrable
\* domain or unsafe ends fetch_text at once with status 451, no body and the
\* reason; the URL is recorded as failed with 451, no link is enqueued by
\* that step, and no URL recorded with 451 is in the pages returned.
C4_DeniedState ==
    /\ \A w \in Workers :
          last[w] = "denied" =>
              /\ pc[w] = "sleeping"
              /\ ret[w].status = 451 /\ ret[w].html.none
              /\ ret[w].hdrs.reason = "host_changed_outside_etld1_or_private"
              /\ results[url[w]] = Failed(url[w], 451)
    /\ Returned => \A u \in DOMAIN results : results[u].status = 451 => u \notin DOMAIN final
C4_DeniedStep ==
    \A w \in Workers :
        (last'[w] = "denied" /\ last[w] # "denied") => queue' = queue /\ visited' = visited
C4_RedirectDenied == [](C4_DeniedState) /\ [][C4_DeniedStep]_vars
\* A worker's fetch has just ended on a denied final host, at its first attempt.
C4_Witness ==
    \E w \in Workers : last[w] = "denied" /\ pc[w] = "sleeping" /\ attempt[w] = 0
                       /\ url[w] = PageB

\* C5: a body that passed the byte cap is never returned: whenever
\* fetch_text returns a body it is the whole body, so no page is built from
\* a truncated one.
C5_OversizeNeverReturned ==
    \A w \in Workers : ~ret[w].html.none => ret[w].html.whole

\* C6: when crawl_site has returned, a page fetched with 200 and not
\* meta-skipped is in the pages returned exactly when include_thin is set or
\* its word count reaches min_words, no other URL is, final_kept counts the
\* pages returned and filtered_thin the pages left out.
C6_FinalFilter ==
    Returned =>
        /\ DOMAIN final \subseteq DOMAIN results
        /\ \A u \in DOMAIN results :
              IF results[u].rich
              THEN u \in DOMAIN final <=> (include_thin \/ results[u].word_count >= MinWords)
              ELSE u \notin DOMAIN final
        /\ stats.final_kept = Cardinality(DOMAIN final)
        /\ stats.filtered_thin =
              Cardinality({ u \in DOMAIN results : results[u].rich } \ DOMAIN final)
\* A run without include_thin returned one page and left a thin one out.
C6_Witness ==
    /\ Returned /\ ~include_thin
    /\ stats.final_kept >= 1 /\ stats.filtered_thin = 1
    /\ \E u \in DOMAIN results : results[u].rich /\ results[u].word_count = 120
                                 /\ u \notin DOMAIN final

\* C7: when crawl_site has returned, crawled = status_200_html + fetch_error,
\* and every dequeued URL was counted exactly once, in one of
\* status_200_html, fetch_error and robots_denied, which count nothing else.
C7_CountersConsistent ==
    Returned =>
        /\ stats.crawled = stats.status_200_html + stats.fetch_error
        /\ DOMAIN tally = DOMAIN dequeued
        /\ \A u \in DOMAIN tally :
              /\ Len(tally[u]) = 1
              /\ tally[u][1] \in {"status_200_html", "fetch_error", "robots_denied"}
        /\ stats.status_200_html = Cardinality({ u \in DOMAIN tally : tally[u] = <<"status_200_html">> })
        /\ stats.fetch_error = Cardinality({ u \in DOMAIN tally : tally[u] = <<"fetch_error">> })
        /\ stats.robots_denied = Cardinality({ u \in DOMAIN tally : tally[u] = <<"robots_denied">> })
\* A run that met all three: a page, a failure and a denial.
C7_Witness ==
    /\ Returned
    /\ stats.status_200_html >= 1 /\ stats.fetch_error >= 1 /\ stats.robots_denied >= 1

\* C8: normalize_url is idempotent: the URL it returned, normalized again
\* against itself or against the base, comes back unchanged.
C8_Idempotent ==
    nphase = "renormalized" => nagain = nout /\ nrebase = nout

\* C9: fetch_text returns the transport failure (status 0 after an
\* exception) only when the exception was raised by the third attempt.
C9_TransportRetried ==
    \A w \in Workers :
        (pc[w] = "sleeping" /\ last[w] = "exception") => attempt[w] = 3 - 1

\* C10, as claimed: after a content-rejected answer (200 with a non-HTML
\* content type, or an empty body) fetch_text sends no further request.
ContentRejected == { "non_html", "empty" }
C10_RejectedStep ==
    \A w \in Workers :
        (pc[w] = "backoff" /\ last[w] \in ContentRejected) => pc'[w] # "fetching"
C10_RetriedStep ==
    \A w \in Workers :
        (pc[w] = "backoff" /\ last[w] \in ContentRejected /\ pc'[w] # pc[w]) =>
            IF attempt[w] < 3 - 1
            THEN pc'[w] = "fetching" /\ attempt'[w] = attempt[w] + 1 /\ url'[w] = url[w]
            ELSE /\ pc'[w] = "sleeping"
                 /\ ret'[w].status = 0 /\ ret'[w].html.none
                 /\ ret'[w].hdrs.reason = "MaxRetryExceeded"
                 /\ results'[url[w]] = Failed(url[w], 0)
C10_RejectedState ==
    \A w \in Workers :
        last[w] \in ContentRejected =>
            \/ pc[w] = "backoff"
            \/ pc[w] = "sleeping" /\ attempt[w] = 3 - 1 /\ ret[w].status = 0
InStep(w) == pc[w] \in {"fetching", "backoff"}
Holders(k) == { w \in Workers : InStep(w) /\ SemKey(url[w]) = k }
C11_PermitsBalanced ==
    Running =>
        /\ \A w \in Workers : InStep(w) => SemKey(url[w]) \in DOMAIN sems
        /\ \A k \in DOMAIN sems :
              /\ sems[k] = 2 - Cardinality(Holders(k))
              /\ sems[k] >= 0
              /\ Cardinality({ w \in Holders(k) : pc[w] = "fetching" }) <= 2
\* extract_rich raised inside the step, the worker is gone and every permit
\* of the domain is back.
C11_Witness ==
    /\ \E w \in Workers : pc[w] = "raised"
    /\ SeedDomain \in DOMAIN sems /\ sems[SeedDomain] = 2
    /\ stats.fetch_error >= 1 /\ Cardinality(DOMAIN results) >= 2

\* C17: no error met while fetching or processing one URL ends a worker or
\* the run: no worker leaves its loop by an exception and crawl_site never
\* raises to its caller.
C17_PageErrorIsolated ==
    /\ \A w \in Workers : pc[w] # "raised"
    /\ mpc # "raised"

\* C12: no GET is sent to the seed's registrable domain unless it is the
\* first or a sleep of at least the politeness delay has ended since the
\* GET before it.
C12_DelayBetweenFetches == gap # "hasty"

\* C13: the host guard fails closed: normalize_url returns None for a link
\* whose host did not resolve during the call, and for a link whose host
\* resolved to several addresses one of which is private, loopback,
\* link-local, reserved or multicast.
Joined == urldefrag(urljoin(nbase, nhref))
C13_FailsClosed ==
    (nphase = "normalized" /\ nhref # EmptyStr) =>
        /\ ~ndns[hostname(Joined)].ok => nout = None
        /\ (ndns[hostname(Joined)].ips \cap UnsafeKinds # {}) => nout = None

\* C14: when robots.txt could not be had (the request failed, the status was
\* not 200 or the body was empty), the rules are empty and allow every URL,
\* robots_denied counts only the URLs the host guard denied, and the seed is
\* dequeued, passes the robots test and is fetched.
AfterRobots == mpc \in {"gather", "returned", "raised"}
C14_RobotsFailOpen ==
    AfterRobots =>
        /\ robots = {}
        /\ \A u \in visited \cup {PageP} : allowed(robots, u)
        /\ \A u \in DOMAIN denied_by : denied_by[u] = "unsafe"
        /\ stats.robots_denied = Cardinality(DOMAIN denied_by)
        /\ (max_pages > 0 /\ pc[1] # "ready") =>
              Count(calls, Seed) = 1 /\ Seed \notin DOMAIN denied_by
\* robots.txt could not be had, and the run fetched /private/x, which the
\* site's robots.txt disallows, and returned with no URL denied.
C14_Witness ==
    /\ Returned
    /\ Count(calls, PageP) = 1 /\ PageP \in DOMAIN results
    /\ stats.robots_denied = 0

\* C15: a page whose robots meta tag holds noindex or nofollow is recorded
\* with the skip marker and goes no further: the step that records it adds
\* nothing to the visited set or the frontier and increments skipped_noindex
\* by 1 and none of fetch_error, final_kept and filtered_thin; the page is
\* never in the pages returned nor counted by the final filter.
SkippedPages == { u \in DOMAIN results : results[u].skipped }
C15_SkippedState ==
    /\ \A u \in SkippedPages :
          /\ results[u] = Skipped(u)
          /\ tally[u] = <<"status_200_html">>
          /\ u \notin DOMAIN final
    /\ stats.skipped_noindex = Cardinality(SkippedPages)
    /\ Returned => stats.final_kept + stats.filtered_thin =
                       Cardinality({ u \in DOMAIN results : results[u].rich })
C15_SkippedStep ==
    \A w \in Workers :
        (pc[w] = "fetching" /\ pc'[w] = "sleeping" /\ page'[w].noindex
         /\ ret'[w].status = 200 /\ Truthy(ret'[w].html)) =>
            /\ results' = Put(results, url[w], Skipped(url[w]))
            /\ visited' = visited /\ queue' = queue
            /\ stats'.skipped_noindex = stats.skipped_noindex + 1
            /\ stats'.fetch_error = stats.fetch_error
            /\ stats'.final_kept = stats.final_kept
            /\ stats'.filtered_thin = stats.filtered_thin
C15_NoindexTerminal == [](C15_SkippedState) /\ [][C15_SkippedStep]_vars
\* A run with include_thin returned; PageB, whose anchors lead to the seed
\* and to /private/x, was skipped: it is not in the pages returned and
\* /private/x was never enqueued.
C15_Witness ==
    /\ Returned /\ include_thin
    /\ PageB \in SkippedPages /\ PageB \notin DOMAIN final
    /\ PageP \notin visited
    /\ stats.final_kept >= 1

\* C16: a run cancelled from outside still hands its caller the pages
\* collected so far: once crawl_site has ended by the cancellation, the
\* pages returned are the pages of results that pass the final filter and
\* final_kept counts them.
C16_CancelKeepsResults ==
    mpc = "cancelled" =>
        /\ DOMAIN final = FinalPages
        /\ stats.final_kept = Cardinality(FinalPages)

\* C18: when crawl_site has returned, robots_denied is the number of the
\* dequeued URLs the robots rules denied (a URL denied for its unsafe host
\* is not among them), and no URL recorded with the policy status 451 was
\* counted in fetch_error.
RobotsDenied == { u \in DOMAIN denied_by : denied_by[u] = "robots" }
C18_ExclusionsCountable ==
    Returned =>
        /\ stats.robots_denied = Cardinality(RobotsDenied)
        /\ \A u \in DOMAIN results :
              results[u].status = 451 => tally[u] # <<"fetch_error">>

\* C19: the host guard is consulted on the host of every URL before a GET
\* for it is sent: every URL requested is one a worker dequeued and, the
\* robots rules allowing it, asked the guard about; a URL whose host the
\* guard found unsafe is recorded with 451 and never requested; and no body
\* is returned from an answer whose final host the guard denied.
GuardConsulted == { u \in DOMAIN dequeued : u \notin RobotsDenied }
C19_GuardedTwice ==
    /\ \A u \in DOMAIN calls : u \in GuardConsulted
    /\ \A u \in DOMAIN denied_by :
          denied_by[u] = "unsafe" => results[u].status = 451 /\ Count(calls, u) = 0
    /\ \A w \in Workers : last[w] = "denied" => ret[w].html.none

\* C20: fail_samples never holds more than 5 entries: it holds one entry
\* for each of the first 5 failures and none for the later ones, while
\* fetch_error counts every URL recorded as failed.
Min(a, b) == IF a < b THEN a ELSE b
FailedUrls == { u \in DOMAIN results : tally[u] = <<"fetch_error">> }
C20_SamplesBounded ==
    /\ Len(stats.fail_samples) <= 5
    /\ Len(stats.fail_samples) = Min(5, stats.fetch_error)
    /\ stats.fetch_error = Cardinality(FailedUrls)
    /\ \A i \in 1..Len(stats.fail_samples) : stats.fail_samples[i].url \in FailedUrls
\* Six fetches have failed and the list holds five samples.
C20_Witness ==
    /\ stats.fetch_error = 6
    /\ Len(stats.fail_samples) = 5

\* C21: crawl_site ends, by returning or by raising; a URL is in flight only
\* while results holds fewer than max_pages entries; every URL dequeued has
\* its entry in results, but the one a worker is fetching (or was working on
\* when it raised); and when crawl_site has returned the frontier is empty
\* or results holds at least max_pages entries.
Ended == mpc \in {"returned", "raised"}
InHand == { url[w] : w \in { v \in Workers : pc[v] \in {"fetching", "backoff", "raised"} } }
C21_LoopState ==
    /\ \A w \in Workers : InStep(w) => Cardinality(DOMAIN results) < max_pages
    /\ DOMAIN dequeued = DOMAIN results \cup InHand
    /\ DOMAIN results \cap InHand = {}
    /\ Returned => queue = <<>> \/ Cardinality(DOMAIN results) >= max_pages
C21_Terminates == <>Ended /\ [](C21_LoopState)
\* A run with the largest budget returned with as many entries in results.
C21_Witness ==
    /\ Returned /\ queue = <<>>
    /\ Cardinality(DOMAIN results) = max_pages /\ max_pages = MaxPages

\* C22: a step that enqueues links appends only URLs that were not in the
\* visited set, each while len(results) + len(queue) was below max_pages,
\* and adds to the visited set exactly the URLs it appends; no other step
\* changes the visited set; and once the seed has been dequeued the frontier
\* holds at most max_pages - 1 URLs.
Appended == { i \in 1..Len(queue') : i > Len(queue) }
C22_AdmitStep ==
    /\ \A i \in Appended :
          /\ queue'[i] \notin visited
          /\ Cardinality(DOMAIN results') + (i - 1) < max_pages
    /\ visited' = visited \cup { queue'[i] : i \in Appended }
    /\ Appended # {} => \A i \in 1..Len(queue) : queue'[i] = queue[i]
C22_FrontierState ==
    Seed \in DOMAIN dequeued => Len(queue) <= max_pages - 1
C22_Admission == [](C22_FrontierState) /\ [][C22_AdmitStep]_vars
\* PageB was kept under the largest budget: of its links, /private/x was
\* enqueued, the seed (already visited) was not, and the budget is now full.
C22_Witness ==
    /\ max_pages = MaxPages
    /\ \E w \in Workers : pc[w] = "sleeping" /\ url[w] = PageB /\ ret[w].html.whole
    /\ results[PageB].rich
    /\ queue = <<PageC, PageP>>
    /\ Cardinality(DOMAIN results) + Len(queue) = max_pages

\* C23: the entry of a URL in results is written once: no step, of a worker
\* or of the final filter, changes or removes an entry that is there.  An
\* entry is a page record (kept or skipped) or a denied or failed record,
\* and its URL was counted for one outcome only; when crawl_site has
\* returned every dequeued URL has its entry.
C23_WriteOnceStep ==
    \A u \in DOMAIN results : u \in DOMAIN results' /\ results'[u] = results[u]
C23_OneOutcome ==
    /\ \A u \in DOMAIN results :
          /\ u \in DOMAIN dequeued /\ dequeued[u] = 1
          /\ Len(tally[u]) = 1
          /\ \/ results[u] = Denied(u) /\ tally[u] = <<"robots_denied">>
             \/ results[u] \in { Failed(u, 0), Failed(u, 451) } /\ tally[u] = <<"fetch_error">>
             \/ results[u] = Skipped(u) /\ tally[u] = <<"status_200_html">>
             \/ \E k \in WordCounts :
                   results[u] = Rich(u, k) /\ tally[u] = <<"status_200_html">>
    /\ Returned => DOMAIN results = DOMAIN dequeued
    /\ Returned => \A u \in DOMAIN final : final[u] = results[u]
C24_OneFetchInFlight ==
    /\ Cardinality({ w \in Workers : InStep(w) }) <= 1
    /\ \A w \in Workers : w # 1 => pc[w] \in {"unborn", "ready", "done"}
    /\ \A w \in Workers :
          (w # 1 /\ pc[w] = "done" /\ max_pages > 0) => Count(dequeued, Seed) = 1
\* The first worker is fetching PageB with PageC waiting in the frontier,
\* and the other three have exited.
C24_Witness ==
    /\ pc[1] = "fetching" /\ url[1] = PageB
    /\ queue = <<PageC>>
    /\ \A w \in Workers : w # 1 => pc[w] = "done"

\* C25: with max_pages >= 1, results never holds more than max_pages + 3
\* entries (3 being the number of workers less one), nor does the pages map
\* returned; the entries of denied, failed and skipped URLs count like
\* those of kept pages: no fetch is in flight once results holds max_pages
\* entries of any kind.
C25_ResultsBounded ==
    max_pages >= 1 =>
        /\ Cardinality(DOMAIN results) <= max_pages + (4 - 1)
        /\ Cardinality(DOMAIN final) <= max_pages + (4 - 1)
        /\ Cardinality(DOMAIN results) >= max_pages => \A w \in Workers : ~InStep(w)
\* A run returned with its budget filled, a skipped page and a denied URL
\* among the entries.
C25_Witness ==
    /\ Returned /\ max_pages = MaxPages
    /\ Cardinality(DOMAIN results) = max_pages
    /\ SkippedPages # {} /\ DOMAIN denied_by # {}
    /\ Cardinality(DOMAIN final) < Cardinality(DOMAIN results)

\* C26: what fetch_text returns has status 0, 200 or 451, and a body only
\* with status 200; after an answer with another status than 200 it returns
\* only once the third attempt is over, and then status 0 with the reason
\* MaxRetryExceeded.
C26_StatusOfReturn ==
    \A w \in Workers :
        /\ ret[w].status \in {0, 200, 451}
        /\ ~ret[w].html.none => ret[w].status = 200
        /\ ret[w].status = 200 => Truthy(ret[w].html)
        /\ last[w] = "bad_status" =>
              \/ pc[w] = "backoff"
              \/ /\ pc[w] = "sleeping" /\ attempt[w] = 3 - 1
                 /\ ret[w] = MaxRetryExceeded
                 /\ results[url[w]] = Failed(url[w], 0)
\* The third answer had a status other than 200 and fetch_text returned
\* status 0 with MaxRetryExceeded.
C26_Witness ==
    \E w \in Workers :
        /\ pc[w] = "sleeping" /\ last[w] = "bad_status" /\ attempt[w] = 3 - 1
        /\ ret[w].status = 0 /\ ret[w].hdrs.reason = "MaxRetryExceeded"

\* C27: when crawl_site has returned, len(results) = robots_denied + crawled,
\* status_200_html = skipped_noindex + final_kept + filtered_thin, and
\* final_kept is the number of entries of the pages map returned.
C27_StatsAddUp ==
    Returned =>
        /\ Cardinality(DOMAIN results) = stats.robots_denied + stats.crawled
        /\ stats.status_200_html =
              stats.skipped_noindex + stats.final_kept + stats.filtered_thin
        /\ stats.final_kept = Cardinality(DOMAIN final)
\* A run returned in which every counter of the three equations is positive.
C27_Witness ==
    /\ Returned
    /\ stats.robots_denied >= 1 /\ stats.skipped_noindex >= 1
    /\ stats.final_kept >= 1 /\ stats.filtered_thin >= 1

\* C28: in app.crawl every item put on the queue is taken and matched by one
\* task_done on every path of the worker loop, so once all the workers have
\* left their loop no item is queued or unfinished and queue.join() can
\* return: no run is left waiting in join with items the workers gave up.
AppLeft(w) == app_pc[w] \in { "exited", "raised" }
C28_JoinCompletes ==
    (app_main = "joining" /\ \A w \in AppWorkers : AppLeft(w)) =>
        /\ app_queue = << >>
        /\ app_unfinished = 0
====
